---- MODULE Spec2Model ----
(***************************************************************************)
(* Model of the concurrent test scheduler of src/gtest.py (GTestManager):  *)
(* discovery fills the queue, execute_tests submits `jobs` worker loops    *)
(* (_schedule_tests), each worker claims the case at the queue front and    *)
(* runs it with _run_test (child process, retry, result row).  Every       *)
(* `with self.LOCK` block is entered by one action that acquires the lock   *)
(* and runs the body of the block; every read of the shared                 *)
(* INTERRUPT event or of the queue outside the lock is an action of its     *)
(* own, so that all interleavings of the threads are explored.  A thread    *)
(* that has run the body of a `with self.LOCK` block holds LOCK until its   *)
(* next step, which leaves the block.                                       *)
(***************************************************************************)
EXTENDS Integers, Sequences, FiniteSets, Bags, TLC

\* ---- bounds of the model
MaxJobs == 2
MaxCases == 3
MaxRetry == 1
\* Only runs with cases * (retry + 1) * 2^jobs <= MaxWork are explored.
MaxWork == 24

\* ---- program constants
SIGINT == 2

Workers == 1..MaxJobs

\* What `--gtest_list_tests` prints, as qualified names; a name is the sequence
\* of its characters, "." being the separator.
Listing ==
  << <<"A", ".", "a">>, <<"A", ".", "b">>, <<"B", ".", "a">>, <<"B", ".", "b", ".", "c">> >>

TestNames == {Listing[i] : i \in 1..Len(Listing)}

\* Exit codes process.wait() can return: success, failure, killed by SIGINT.
ExitCodes == {0, 1, -SIGINT}

\* Python's None for test_candidate.
NoTest == [name |-> <<>>, retry |-> 0]

Min(a, b) == IF a < b THEN a ELSE b

InSeq(x, s) == \E i \in 1..Len(s) : s[i] = x

\* name.split('.')[0]
RECURSIVE SplitFirst(_)
SplitFirst(s) ==
  IF s = <<>> \/ Head(s) = "." THEN <<>> ELSE <<Head(s)>> \o SplitFirst(Tail(s))

GroupOf(name) == SplitFirst(name)

\* The tests get_test_list puts into the queue when the filter selects the
\* lines S of the listing, in listing order, each with options.retry.
RECURSIVE Discover(_, _, _)
Discover(i, S, r) ==
  IF i > Len(Listing) THEN <<>>
  ELSE (IF i \in S THEN <<[name |-> Listing[i], retry |-> r]>> ELSE <<>>)
       \o Discover(i + 1, S, r)

\* The scan of _schedule_tests: `for _ in range(qsize)` looks at queue[0] and
\* removes it when its group is not in running_groups; the queue is never
\* rotated, so each iteration sees the same front.
RECURSIVE ScanQueue(_, _, _, _)
ScanQueue(q, rg, n, cand) ==
  IF n = 0 THEN [cand |-> cand, q |-> q]
  ELSE LET c == Head(q)
       IN  IF ~InSeq(GroupOf(c.name), rg)
           THEN [cand |-> c, q |-> Tail(q)]
           ELSE ScanQueue(q, rg, n - 1, c)

\* Mutants of the scan: the front is looked at but never removed; the test
\* behind the claimed one is removed with it.
ClaimNextPeek(q, rg) ==
  IF q = <<>> THEN [cand |-> NoTest, q |-> q] ELSE [cand |-> Head(q), q |-> q]
ClaimNextDrop(q, rg) ==
  IF q = <<>> THEN [cand |-> NoTest, q |-> q]
  ELSE [cand |-> Head(q), q |-> IF Len(q) >= 2 THEN Tail(Tail(q)) ELSE Tail(q)]

\* Mutant: the scan takes the test at the back of the queue.
ClaimNextLast(q, rg) ==
  IF q = <<>> THEN [cand |-> NoTest, q |-> q]
  ELSE [cand |-> q[Len(q)], q |-> SubSeq(q, 1, Len(q) - 1)]

ClaimNext(q, rg) == ScanQueue(q, rg, Len(q), NoTest)

\* list.remove(x): drops the first occurrence.
RECURSIVE ListRemove(_, _)
ListRemove(s, x) ==
  IF s = <<>> THEN <<>>
  ELSE IF Head(s) = x THEN Tail(s) ELSE <<Head(s)>> \o ListRemove(Tail(s), x)

\* Mutant: the group is not recorded.
MarkGroupNone(rg, g) == rg

\* `running_groups.append(test_group)`
MarkGroup(rg, g) == Append(rg, g)

\* Mutant: the group is never taken out of running_groups.
ReleaseGroupKeep(rg, g) == rg

\* `if running_groups: running_groups.remove(test_group)`
ReleaseGroup(rg, g) == IF rg # <<>> THEN ListRemove(rg, g) ELSE rg

\* Mutants of the retry test: one retry too many; the exit code is not looked at.
ShouldRetryOffByOne(r, retry, intr) == r # 0 /\ retry >= 0 /\ ~intr
ShouldRetryAnyCode(r, retry, intr) == retry > 0 /\ ~intr

\* Mutant: the retry test does not look at the event.
ShouldRetryNoIntr(r, retry, intr) == r # 0 /\ retry > 0

\* `ret != 0 and retry > 0 and not self.INTERRUPT.is_set()`
ShouldRetry(r, retry, intr) == r # 0 /\ retry > 0 /\ ~intr

\* Mutant: the sign of the interrupt code is lost and success is not told apart.
StatusOfNoPass(r) == IF r = -SIGINT THEN "Killed" ELSE "Failed"

\* 'Passed' if ret == 0 else 'Killed' if ret == -signal.SIGINT else 'Failed'
StatusOf(r) == IF r = 0 THEN "Passed" ELSE IF r = -SIGINT THEN "Killed" ELSE "Failed"

\* A _run_test frame: its `retry`, its `ret`, and (history) whether this
\* attempt was sent SIGINT by the worker.
Frame(r) == [retry |-> r, ret |-> 0, signalled |-> FALSE]
Top(st) == st[Len(st)]
SetRet(st, code, sig) == [st EXCEPT ![Len(st)] = [@ EXCEPT !.ret = code, !.signalled = sig]]

VARIABLES
  jobs,           \* options.jobs
  optRetry,       \* options.retry
  tests,          \* self._tests (queue of test tuples)
  running_tests,  \* self._running_tests.qsize() (what get() returns is discarded)
  total,          \* self._total
  finished,       \* self._finished
  results,        \* self.results: the bag of its rows (Test, Status)
  INTERRUPT,      \* GTestManager.INTERRUPT
  LOCK,           \* GTestManager.LOCK: the worker that holds it, 0 when free
  mainpc,         \* position of the main thread in run()/execute_tests()
  pc,             \* position of each worker thread
  running_groups, \* _schedule_tests local, per worker
  test_group,     \* _schedule_tests local, per worker
  test_candidate, \* _schedule_tests local, per worker
  frames,         \* the stack of _run_test frames (retry, ret), per worker
  discovered,     \* history: the names get_test_list queued, in order
  exit0,          \* history: per test, whether process.wait() returned 0 for it
  takes,          \* history: per test, how often _tests.get() removed it
  runs,           \* history: per test, how often _schedule_tests called _run_test on it
  atCancel        \* history: whether INTERRUPT was set, and the names queued then

vars == <<jobs, optRetry, tests, running_tests, total, finished, results, INTERRUPT,
          LOCK, mainpc, pc, running_groups, test_group, test_candidate, frames,
          discovered, exit0, takes, runs, atCancel>>

shared == <<jobs, optRetry, tests, running_tests, total, finished, results, INTERRUPT,
            LOCK, mainpc>>
locals == <<running_groups, test_group, test_candidate, frames>>
history == <<discovered, exit0, takes, runs, atCancel>>

Names(q) == {q[i].name : i \in 1..Len(q)}

\* __init__ and the parsed arguments.
Init ==
  /\ jobs \in 1..MaxJobs
  /\ optRetry \in 0..MaxRetry
  /\ tests = <<>>
  /\ running_tests = 0
  /\ total = 0
  /\ finished = 0
  /\ results = EmptyBag
  /\ INTERRUPT = FALSE
  /\ LOCK = 0
  /\ mainpc = "init"
  /\ pc = [w \in Workers |-> "none"]
  /\ running_groups = [w \in Workers |-> <<>>]
  /\ test_group = [w \in Workers |-> <<>>]
  /\ test_candidate = [w \in Workers |-> NoTest]
  /\ frames = [w \in Workers |-> <<>>]
  /\ discovered = <<>>
  /\ exit0 = [n \in TestNames |-> FALSE]
  /\ takes = [n \in TestNames |-> 0]
  /\ runs = [n \in TestNames |-> 0]
  /\ atCancel = [set |-> FALSE, queued |-> {}]

\* get_test_list: the filter selects a range of the listing; every selected
\* test is queued, then _total and options.jobs are set.
GetTestList ==
  /\ mainpc = "init"
  /\ \E a \in 1..Len(Listing), b \in 0..Len(Listing) :
       /\ b - a + 1 <= MaxCases
       /\ tests' = Discover(1, a..b, optRetry)
  /\ total' = Len(tests')
  /\ jobs' = Min(jobs, total')
  /\ total' * (optRetry + 1) * 2^jobs' <= MaxWork
  /\ discovered' = [i \in 1..Len(tests') |-> tests'[i].name]
  /\ mainpc' = "listed"
  /\ UNCHANGED <<optRetry, running_tests, finished, results, INTERRUPT, LOCK, pc>>
  /\ UNCHANGED <<locals, exit0, takes, runs, atCancel>>

\* execute_tests: ThreadPoolExecutor(max_workers=jobs) raises ValueError for
\* jobs = 0; otherwise one future per job is submitted.
ExecuteTests ==
  /\ mainpc = "listed"
  /\ IF jobs <= 0
     THEN /\ mainpc' = "crashed"
          /\ pc' = pc
     ELSE /\ mainpc' = "poll"
          /\ pc' = [w \in Workers |-> IF w <= jobs THEN "pending" ELSE "none"]
  /\ UNCHANGED <<jobs, optRetry, tests, running_tests, total, finished, results, INTERRUPT, LOCK>>
  /\ UNCHANGED <<locals, history>>

Stopped(w) == pc[w] \in {"none", "stopped", "cancelled"}
AllStopped == mainpc \in {"poll", "join", "done"} /\ \A w \in Workers : Stopped(w)

\* The `except KeyboardInterrupt` handler of the polling loop: INTERRUPT.set()
\* and executor.shutdown(wait=False, cancel_futures=True), which cancels the
\* futures no thread has picked up yet.
KeyboardInterrupt ==
  /\ mainpc = "poll"
  /\ INTERRUPT' = TRUE
  /\ pc' = [w \in Workers |-> IF pc[w] = "pending" THEN "cancelled" ELSE pc[w]]
  /\ mainpc' = "join"
  /\ atCancel' = [set |-> TRUE, queued |-> Names(tests)]
  /\ UNCHANGED <<jobs, optRetry, tests, running_tests, total, finished, results, LOCK>>
  /\ UNCHANGED <<locals, discovered, exit0, takes, runs>>

\* Mutant: the event is cleared when the run ends.
FinishClear ==
  /\ mainpc \in {"poll", "join"}
  /\ \A w \in Workers : Stopped(w)
  /\ mainpc' = "done"
  /\ INTERRUPT' = FALSE
  /\ UNCHANGED <<jobs, optRetry, tests, running_tests, total, finished, results, LOCK, pc>>
  /\ UNCHANGED <<locals, history>>

\* Mutant: the run ends once cancellation was requested, without the join.
FinishNoJoin ==
  /\ mainpc \in {"poll", "join"}
  /\ mainpc = "join" \/ \A w \in Workers : Stopped(w)
  /\ mainpc' = "done"
  /\ UNCHANGED <<jobs, optRetry, tests, running_tests, total, finished, results, INTERRUPT,
                  LOCK, pc>>
  /\ UNCHANGED <<locals, history>>

\* `all(f.done() for f in futures)` ends the polling loop, or the executor's
\* __exit__ (shutdown(wait=True)) has joined every worker thread.
Finish ==
  /\ mainpc \in {"poll", "join"}
  /\ \A w \in Workers : Stopped(w)
  /\ mainpc' = "done"
  /\ UNCHANGED <<jobs, optRetry, tests, running_tests, total, finished, results, INTERRUPT,
                  LOCK, pc>>
  /\ UNCHANGED <<locals, history>>

\* A pool thread picks the submitted _schedule_tests up.
Start(w) ==
  /\ pc[w] = "pending"
  /\ pc' = [pc EXCEPT ![w] = "loop"]
  /\ UNCHANGED <<shared, locals, history>>

\* `if self.INTERRUPT.is_set(): break`
CheckInterrupt(w) ==
  /\ pc[w] = "loop"
  /\ pc' = [pc EXCEPT ![w] = IF INTERRUPT THEN "stopped" ELSE "empty"]
  /\ UNCHANGED <<shared, locals, history>>

\* Mutant: the loop gives up while one test is still queued.
CheckEmptyOffByOne(w) ==
  /\ pc[w] = "empty"
  /\ pc' = [pc EXCEPT ![w] = IF Len(tests) <= 1 THEN "stopped" ELSE "claim"]
  /\ UNCHANGED <<shared, locals, history>>

\* `if self._tests.empty(): break`
CheckEmpty(w) ==
  /\ pc[w] = "empty"
  /\ pc' = [pc EXCEPT ![w] = IF tests = <<>> THEN "stopped" ELSE "claim"]
  /\ UNCHANGED <<shared, locals, history>>

\* `test_candidate = None` and the scan inside `with self.LOCK:`; the thread
\* enters the block when the lock is free and holds it after the scan.
Claim(w) ==
  /\ pc[w] = "claim"
  /\ LOCK = 0
  /\ LOCK' = w
  /\ LET c == ClaimNext(tests, running_groups[w])
     IN  /\ tests' = c.q
         /\ test_candidate' = [test_candidate EXCEPT ![w] = c.cand]
         /\ takes' = IF c.q # tests
                     THEN [takes EXCEPT ![c.cand.name] = @ + 1]
                     ELSE takes
  /\ pc' = [pc EXCEPT ![w] = "scanned"]
  /\ UNCHANGED <<jobs, optRetry, running_tests, total, finished, results, INTERRUPT, mainpc>>
  /\ UNCHANGED <<running_groups, test_group, frames, discovered, exit0, runs, atCancel>>

\* The end of the scan's `with` block releases the lock; then
\* `if test_candidate is None: return`.
ClaimUnlock(w) ==
  /\ pc[w] = "scanned"
  /\ LOCK = w
  /\ LOCK' = 0
  /\ pc' = [pc EXCEPT ![w] = IF test_candidate[w] = NoTest THEN "stopped" ELSE "mark"]
  /\ UNCHANGED <<jobs, optRetry, tests, running_tests, total, finished, results, INTERRUPT, mainpc>>
  /\ UNCHANGED <<locals, history>>

\* `test_group = test_candidate[0].split('.')[0]`,
\* `running_groups.append(test_group)` and the call of _run_test.
Mark(w) ==
  /\ pc[w] = "mark"
  /\ test_group' = [test_group EXCEPT ![w] = GroupOf(test_candidate[w].name)]
  /\ running_groups' =
       [running_groups EXCEPT ![w] = MarkGroup(@, GroupOf(test_candidate[w].name))]
  /\ frames' = [frames EXCEPT ![w] = <<Frame(test_candidate[w].retry)>>]
  /\ runs' = [runs EXCEPT ![test_candidate[w].name] = @ + 1]
  /\ pc' = [pc EXCEPT ![w] = "start"]
  /\ UNCHANGED <<shared, test_candidate, discovered, exit0, takes, atCancel>>

\* _run_test: `with self.LOCK: self._running_tests.put(test_name)`; the thread
\* holds the lock after the put.
RunTestStart(w) ==
  /\ pc[w] = "start"
  /\ LOCK = 0
  /\ LOCK' = w
  /\ running_tests' = running_tests + 1
  /\ pc' = [pc EXCEPT ![w] = "put"]
  /\ UNCHANGED <<jobs, optRetry, tests, total, finished, results, INTERRUPT, mainpc>>
  /\ UNCHANGED <<locals, history>>

\* Mutant: the child is launched inside the `with self.LOCK` block.
LaunchLocked(w) ==
  /\ pc[w] = "put"
  /\ LOCK = w
  /\ pc' = [pc EXCEPT ![w] = "launched"]
  /\ UNCHANGED <<shared, locals, history>>

\* The end of the put's `with` block releases the lock; then mkdir, chdir,
\* open(log) and subprocess.Popen(cmd, ...) launch the child process.
Launch(w) ==
  /\ pc[w] = "put"
  /\ LOCK = w
  /\ LOCK' = 0
  /\ pc' = [pc EXCEPT ![w] = "launched"]
  /\ UNCHANGED <<jobs, optRetry, tests, running_tests, total, finished, results, INTERRUPT, mainpc>>
  /\ UNCHANGED <<locals, history>>

\* `if self.INTERRUPT.is_set(): send_signal(SIGINT); ret = -SIGINT`
CheckLaunch(w) ==
  /\ pc[w] = "launched"
  /\ IF INTERRUPT
     THEN /\ frames' = [frames EXCEPT ![w] = SetRet(@, -SIGINT, TRUE)]
          /\ pc' = [pc EXCEPT ![w] = "retry"]
     ELSE /\ pc' = [pc EXCEPT ![w] = "wait"]
          /\ UNCHANGED frames
  /\ UNCHANGED <<shared, running_groups, test_group, test_candidate, history>>

\* `ret = process.wait()`, the child exiting with one of `codes`.  exit0
\* records an exit code 0 of an attempt that no signalled attempt precedes.
WaitFor(w, codes) ==
  /\ pc[w] = "wait"
  /\ \E code \in codes :
       /\ frames' = [frames EXCEPT ![w] = SetRet(@, code, FALSE)]
       /\ exit0' = [exit0 EXCEPT ![test_candidate[w].name] =
                      @ \/ (code = 0 /\ \A i \in 1..(Len(frames[w]) - 1) :
                                          ~frames[w][i].signalled)]
  /\ pc' = [pc EXCEPT ![w] = "retry"]
  /\ UNCHANGED <<shared, running_groups, test_group, test_candidate, discovered, takes, runs, atCancel>>

Wait(w) == WaitFor(w, ExitCodes)

\* Mutant: the group is released as soon as the last attempt is over, before
\* the row is appended.
RetryCheckReleaseFirst(w) ==
  /\ pc[w] = "retry"
  /\ IF ShouldRetry(Top(frames[w]).ret, Top(frames[w]).retry, INTERRUPT)
     THEN /\ frames' = [frames EXCEPT ![w] = Append(@, Frame(Top(@).retry - 1))]
          /\ pc' = [pc EXCEPT ![w] = "start"]
          /\ UNCHANGED running_groups
     ELSE /\ pc' = [pc EXCEPT ![w] = "append"]
          /\ running_groups' =
               [running_groups EXCEPT ![w] = ReleaseGroup(@, test_group[w])]
          /\ UNCHANGED frames
  /\ UNCHANGED <<shared, test_group, test_candidate, history>>

\* The retry test: the recursive call `self._run_test((..., retry - 1))`, or
\* falling through to the final bookkeeping.
RetryCheck(w) ==
  /\ pc[w] = "retry"
  /\ IF ShouldRetry(Top(frames[w]).ret, Top(frames[w]).retry, INTERRUPT)
     THEN /\ frames' = [frames EXCEPT ![w] = Append(@, Frame(Top(@).retry - 1))]
          /\ pc' = [pc EXCEPT ![w] = "start"]
     ELSE /\ pc' = [pc EXCEPT ![w] = "append"]
          /\ UNCHANGED frames
  /\ UNCHANGED <<shared, running_groups, test_group, test_candidate, history>>

\* `with self.LOCK:` get(), _finished += 1, results.loc[len] = row; the
\* thread holds the lock after the append.
AppendResult(w) ==
  /\ pc[w] = "append"
  /\ LOCK = 0
  /\ LOCK' = w
  /\ running_tests > 0
  /\ running_tests' = running_tests - 1
  /\ finished' = finished + 1
  /\ results' = results (+) SetToBag({[Test |-> test_candidate[w].name,
                                       Status |-> StatusOf(Top(frames[w]).ret)]})
  /\ pc' = [pc EXCEPT ![w] = "appended"]
  /\ UNCHANGED <<jobs, optRetry, tests, total, INTERRUPT, mainpc>>
  /\ UNCHANGED <<locals, history>>

\* The end of the append's `with` block releases the lock and every _run_test
\* frame returns.
AppendUnlock(w) ==
  /\ pc[w] = "appended"
  /\ LOCK = w
  /\ LOCK' = 0
  /\ pc' = [pc EXCEPT ![w] = "release"]
  /\ UNCHANGED <<jobs, optRetry, tests, running_tests, total, finished, results, INTERRUPT, mainpc>>
  /\ UNCHANGED <<locals, history>>

\* Back in _schedule_tests: `running_groups.remove(test_group)`.  test_group,
\* test_candidate and the returned frames are not read again before they are
\* reassigned (lines 266 and 277), so they are reset here.
Release(w) ==
  /\ pc[w] = "release"
  /\ frames' = [frames EXCEPT ![w] = <<>>]
  /\ running_groups' =
       [running_groups EXCEPT ![w] = ReleaseGroup(@, test_group[w])]
  /\ test_group' = [test_group EXCEPT ![w] = <<>>]
  /\ test_candidate' = [test_candidate EXCEPT ![w] = NoTest]
  /\ pc' = [pc EXCEPT ![w] = "loop"]
  /\ UNCHANGED <<shared, history>>

Worker(w) ==
  \/ Start(w)
  \/ CheckInterrupt(w)
  \/ CheckEmpty(w)
  \/ Claim(w)
  \/ ClaimUnlock(w)
  \/ Mark(w)
  \/ RunTestStart(w)
  \/ Launch(w)
  \/ CheckLaunch(w)
  \/ Wait(w)
  \/ RetryCheck(w)
  \/ AppendResult(w)
  \/ AppendUnlock(w)
  \/ Release(w)

Next ==
  \/ GetTestList
  \/ ExecuteTests
  \/ KeyboardInterrupt
  \/ Finish
  \/ \E w \in Workers : Worker(w)

Spec == Init /\ [][Next]_vars

\* Runs in which the CancellationSignal is never set (no KeyboardInterrupt),
\* the threads keep being scheduled and every child process exits: a step that
\* can be taken is eventually taken.
NextRun ==
  \/ GetTestList
  \/ ExecuteTests
  \/ Finish
  \/ \E w \in Workers : Worker(w)

FairSpec == Init /\ [][NextRun]_vars /\ WF_vars(NextRun)

\* Runs without cancellation in which every child process exits with code 0.
WaitPass(w) == WaitFor(w, {0})

WorkerPass(w) ==
  \/ Start(w)
  \/ CheckInterrupt(w)
  \/ CheckEmpty(w)
  \/ Claim(w)
  \/ ClaimUnlock(w)
  \/ Mark(w)
  \/ RunTestStart(w)
  \/ Launch(w)
  \/ CheckLaunch(w)
  \/ WaitPass(w)
  \/ RetryCheck(w)
  \/ AppendResult(w)
  \/ AppendUnlock(w)
  \/ Release(w)

NextPass ==
  \/ GetTestList
  \/ ExecuteTests
  \/ Finish
  \/ \E w \in Workers : WorkerPass(w)

SpecPass == Init /\ [][NextPass]_vars

\* ---------------------------------------------------------------------------
\* Properties
\* ---------------------------------------------------------------------------

Statuses == {"Passed", "Failed", "Killed"}

Row(n, st) == [Test |-> n, Status |-> st]

\* Number of rows of the result table whose Test is n, for n a test name.
RowCount(n) ==
  CopiesIn(Row(n, "Passed"), results) + CopiesIn(Row(n, "Failed"), results)
    + CopiesIn(Row(n, "Killed"), results)

\* Worker w is inside _run_test and has not appended the row yet.
Attempting(w) == pc[w] \in {"start", "put", "launched", "wait", "retry", "append"}

\* Worker w has claimed a case and has not yet come back to the top of its loop.
InFlight(w) == Attempting(w) \/ pc[w] \in {"appended", "release"}

\* The tests that discovery put into the queue.
Discovered == {discovered[i] : i \in 1..Len(discovered)}

\* execute_tests has submitted the worker loops and every one of them has stopped.
WorkersDone == AllStopped

\* No case has been claimed yet.
NoneClaimed == \A n \in TestNames : runs[n] = 0 /\ takes[n] = 0

\* C1: at most one worker at a time is executing a case of any given group:
\* two workers are never both between claiming and finishing cases of the same
\* group.
C1_GroupExclusive ==
  \A w1, w2 \in Workers :
    (w1 # w2 /\ Attempting(w1) /\ Attempting(w2))
      => GroupOf(test_candidate[w1].name) # GroupOf(test_candidate[w2].name)

\* C2: the result table holds at most one row per test name; a case that has
\* reached its terminal state (claimed, and no worker is attempting it any
\* more) has exactly one row; while a case is still being attempted or retried
\* it has no row.
C2_OneRowPerCase ==
  \A n \in TestNames :
    LET attempted == \E w \in Workers : Attempting(w) /\ test_candidate[w].name = n
    IN  /\ RowCount(n) <= 1
        /\ (runs[n] > 0 /\ ~attempted) => RowCount(n) = 1
        /\ attempted => RowCount(n) = 0
        /\ runs[n] = 0 => RowCount(n) = 0

\* C2 witness: a case that was retried has its single row.
C2_Witness ==
  \E w \in Workers :
    /\ pc[w] = "release"
    /\ Len(frames[w]) >= 2
    /\ RowCount(test_candidate[w].name) = 1

\* C3: a case is removed from the queue at most once, it is run only by the
\* worker that removed it, at most one worker holds it, and it is never in the
\* queue again once it was removed.
C3_ClaimedOnce ==
  \A n \in TestNames :
    /\ takes[n] <= 1
    /\ runs[n] <= takes[n]
    /\ Cardinality({w \in Workers : InFlight(w) /\ test_candidate[w].name = n}) <= runs[n]
    /\ n \in Names(tests) => (takes[n] = 0 /\ runs[n] = 0)

\* C3 witness: two workers hold two different cases at the same time while a
\* third case is still queued.
C3_Witness ==
  \E w1, w2 \in Workers :
    /\ w1 # w2
    /\ InFlight(w1) /\ InFlight(w2)
    /\ test_candidate[w1].name # test_candidate[w2].name
    /\ tests # <<>>

\* C4: the frames of a case's attempts carry the retry counters R, R-1, ...
\* (one less per retry), so there are at most R+1 attempts; when the row is
\* appended with cancellation not set and every attempt has exited with a
\* failure code (neither 0 nor the interrupt code), there were exactly R+1
\* attempts and the case has exactly one row, of status Failed.
C4_RetryBudget ==
  \A w \in Workers :
    frames[w] # <<>> =>
      LET R == test_candidate[w].retry
          n == test_candidate[w].name
      IN  /\ Len(frames[w]) <= R + 1
          /\ \A i \in 1..Len(frames[w]) : frames[w][i].retry = R - (i - 1)
          /\ (/\ pc[w] = "release"
              /\ ~INTERRUPT
              /\ \A i \in 1..Len(frames[w]) : frames[w][i].ret \notin {0, -SIGINT})
             => /\ Len(frames[w]) = R + 1
                /\ CopiesIn(Row(n, "Failed"), results) = 1
                /\ RowCount(n) = 1

\* C4 witness: a case with retries has failed all its attempts and has its row.
C4_Witness ==
  \E w \in Workers :
    /\ pc[w] = "release"
    /\ ~INTERRUPT
    /\ test_candidate[w].retry >= 1
    /\ Len(frames[w]) = test_candidate[w].retry + 1
    /\ \A i \in 1..Len(frames[w]) : frames[w][i].ret = 1
    /\ CopiesIn(Row(test_candidate[w].name, "Failed"), results) = 1

\* C5: a row's status is Passed exactly when some attempt of its case exited
\* with code 0 and no attempt of the case before it was cancelled (signalled).
C5_PassedIffExitZero ==
  \A n \in TestNames : \A st \in Statuses :
    CopiesIn(Row(n, st), results) > 0 => (st = "Passed" <=> exit0[n])

\* C5 witness: a case passes on a retry while another case has a row that is
\* not Passed.
C5_Witness ==
  /\ \E w \in Workers :
       /\ pc[w] = "release"
       /\ Len(frames[w]) >= 2
       /\ CopiesIn(Row(test_candidate[w].name, "Passed"), results) = 1
  /\ \E n \in TestNames : \E st \in {"Failed", "Killed"} : CopiesIn(Row(n, st), results) > 0

\* C6: when the CancellationSignal was set before any case was claimed (every
\* discovered case was still queued), no case is ever claimed and the result
\* table stays empty.
C6_NoClaimAfterEarlyCancel ==
  (atCancel.set /\ atCancel.queued = Discovered) => (NoneClaimed /\ results = EmptyBag)

\* C7: when the CancellationSignal was set mid-run (some case already
\* claimed), every case that was queued at that moment stays queued and gets no
\* row, and once all worker loops have stopped each case claimed before that
\* moment has its row.
C7_OnlyClaimedCasesAfterCancel ==
  (atCancel.set /\ atCancel.queued # Discovered) =>
    /\ \A n \in atCancel.queued : n \in Names(tests) /\ runs[n] = 0 /\ RowCount(n) = 0
    /\ WorkersDone => \A n \in Discovered \ atCancel.queued : RowCount(n) = 1

\* C8: no child process of a retry (an attempt after the first) is launched
\* while the CancellationSignal is set.
C8_NoRetryLaunchAfterCancel ==
  [][\A w \in Workers :
       (pc[w] = "put" /\ pc'[w] = "launched" /\ Len(frames[w]) >= 2) => ~INTERRUPT]_vars

\* C9: without cancellation and with every attempt exiting with code 0, once
\* all worker loops have stopped the result table is exactly one Passed row
\* per discovered case, whatever the interleaving and the number of workers.
C9_SameRowsEveryRun ==
  WorkersDone => results = SetToBag({Row(n, "Passed") : n \in Discovered})

\* C9 witness: a run with two workers and at least three cases has ended.
C9_Witness ==
  /\ mainpc = "done"
  /\ jobs >= 2
  /\ Len(discovered) >= 3
  /\ BagCardinality(results) = Len(discovered)

\* C10: in a run without cancellation in which every child process exits
\* (with any exit code), every worker loop eventually stops (a run on zero
\* cases starts no worker loop: the executor cannot be created), and whenever
\* all loops have stopped every discovered case has its row and the finished
\* counter equals the total.
C10_RunCompletes ==
  /\ [](WorkersDone =>
          /\ ~INTERRUPT
          /\ finished = total
          /\ \A n \in TestNames : RowCount(n) = IF n \in Discovered THEN 1 ELSE 0)
  /\ <>(mainpc = "crashed" \/ WorkersDone)

\* C10 witness: a run with a failed case has ended with every case recorded.
C10_Witness ==
  /\ mainpc = "done"
  /\ ~INTERRUPT
  /\ total >= 2
  /\ finished = total
  /\ \E n \in Discovered : CopiesIn(Row(n, "Failed"), results) = 1
  /\ \E n \in Discovered : CopiesIn(Row(n, "Passed"), results) = 1

\* Two of the discovered cases belong to the same group.
SharedGroup ==
  \E i, j \in 1..Len(discovered) :
    i # j /\ GroupOf(discovered[i]) = GroupOf(discovered[j])

HeldByOther(w, g) ==
  \E v \in Workers \ {w} :
    /\ Attempting(v)
    /\ InSeq(g, running_groups[v])
    /\ GroupOf(test_candidate[v].name) = g

\* Every queued case belongs to a group held by a worker other than w.
AllBlockedFor(w) ==
  /\ tests # <<>>
  /\ \A i \in 1..Len(tests) : HeldByOther(w, GroupOf(tests[i].name))

\* C12: when a worker scans the queue while the CancellationSignal is not
\* set, the queue is non-empty and every queued case belongs to a group held
\* by another worker, the scan returns no case and leaves the queue as it is
\* (and the loop of that worker then stops).
C12_BlockedScanReturnsNone ==
  [][\A w \in Workers :
       (pc[w] = "claim" /\ pc'[w] = "scanned" /\ ~INTERRUPT /\ AllBlockedFor(w))
         => (test_candidate'[w] = NoTest /\ tests' = tests)]_vars

\* C13: the CancellationSignal is monotonic: once INTERRUPT is set it stays
\* set; no step of the main thread or of a worker clears it.
C13_SignalMonotonic == [][INTERRUPT => INTERRUPT']_vars

\* C13 witness: the signal was set, a worker acted on it (a Killed row), the
\* run has ended and the signal is still set.
C13_Witness ==
  /\ INTERRUPT
  /\ mainpc = "done"
  /\ \E n \in Discovered : CopiesIn(Row(n, "Killed"), results) = 1

\* C14: the run is declared finished (execute_tests returns) only when every
\* worker loop that was started has returned, also after cancellation was
\* requested, and no row is appended once the run is declared finished.
C14_FinishAfterWorkers ==
  /\ [](mainpc = "done" => \A w \in Workers : Stopped(w))
  /\ [][mainpc = "done" => (mainpc' = "done" /\ results' = results)]_vars

\* C14 witness: a cancelled run has ended with the row of a case that was in
\* flight when the signal was set.
C14_Witness ==
  /\ mainpc = "done"
  /\ atCancel.set
  /\ atCancel.queued # Discovered
  /\ results # EmptyBag

\* The groups some worker has recorded as running.
ActiveGroupSet ==
  UNION {{running_groups[v][i] : i \in 1..Len(running_groups[v])} : v \in Workers}

\* The positions of q whose case belongs to a group outside act.
Eligible(q, act) == {i \in 1..Len(q) : GroupOf(q[i].name) \notin act}

\* q without its i-th element.
RemoveAt(q, i) == SubSeq(q, 1, i - 1) \o SubSeq(q, i + 1, Len(q))

\* C15: a scan of the queue returns the first case, in queue order, whose
\* group is not active (recorded as running by some worker), skipping the
\* cases of active groups; it removes exactly that case and leaves the others
\* in order; it returns no case, and leaves the queue alone, only when every
\* queued case belongs to an active group or the queue is empty.
C15_ClaimFirstEligible ==
  [][\A w \in Workers :
       (pc[w] = "claim" /\ pc'[w] = "scanned") =>
         LET el == Eligible(tests, ActiveGroupSet)
         IN  IF el = {}
             THEN test_candidate'[w] = NoTest /\ tests' = tests
             ELSE LET i == CHOOSE k \in el : \A m \in el : k <= m
                  IN  test_candidate'[w] = tests[i] /\ tests' = RemoveAt(tests, i)]_vars

\* Worker w has removed a case from the queue and has not yet recorded its
\* group in running_groups.
RemovedUnmarked(w) ==
  /\ test_candidate[w] # NoTest
  /\ takes[test_candidate[w].name] = 1
  /\ runs[test_candidate[w].name] = 0
  /\ ~InSeq(GroupOf(test_candidate[w].name), running_groups[w])

\* C16: claim and release are atomic with the group tracking: a worker that
\* has removed a case and not yet recorded its group still holds the lock,
\* no other worker scans the queue in between, and running_groups changes
\* (a group is recorded or removed) only in steps of the worker holding the
\* lock.
C16_AtomicGroupTracking ==
  /\ [](\A w \in Workers : RemovedUnmarked(w) => LOCK = w)
  /\ [][\A w, v \in Workers :
          (w # v /\ RemovedUnmarked(w)) => ~(pc[v] = "claim" /\ pc'[v] = "scanned")]_vars
  /\ [][\A w \in Workers : running_groups'[w] # running_groups[w] => LOCK = w]_vars

\* Worker w has the group of its claimed case recorded in running_groups.
GroupMarked(w) == InSeq(GroupOf(test_candidate[w].name), running_groups[w])

\* C17 as stated: the row of a case is appended after the release of its
\* group: no case has a row while its group is still recorded in
\* running_groups on behalf of that case.
C17_RowAfterRelease ==
  \A w \in Workers :
    (test_candidate[w] # NoTest /\ RowCount(test_candidate[w].name) >= 1)
      => ~GroupMarked(w)

\* C17 (amended): the row of a case is appended before the release of its
\* group: the group stays recorded during every attempt of the case, while
\* the case has no row yet, and it is still recorded when the row has been
\* appended; it is released only afterwards.
C17_RowBeforeRelease ==
  \A w \in Workers :
    /\ Attempting(w) => (GroupMarked(w) /\ RowCount(test_candidate[w].name) = 0)
    /\ pc[w] \in {"appended", "release"}
         => (GroupMarked(w) /\ RowCount(test_candidate[w].name) = 1)

\* C17 witness: a case has its row and its worker has left _run_test but not
\* yet removed the group.
C17_Witness ==
  \E w \in Workers :
    /\ pc[w] = "release"
    /\ LOCK = 0
    /\ GroupMarked(w)
    /\ RowCount(test_candidate[w].name) = 1

\* C18: an attempt whose launch check finds the CancellationSignal set is
\* sent the interrupt instead of being waited for (its ret is the interrupt
\* code), it is the last attempt of its case whatever retries remain, and the
\* row of the case is Killed; an attempt whose launch check finds the signal
\* unset is not signalled, is waited for, and when it is the last attempt the
\* row's status is the one of its own exit code.
C18_SignalledAttemptFinal ==
  /\ [](\A w \in Workers :
          /\ \A i \in 1..Len(frames[w]) :
               frames[w][i].signalled =>
                 /\ i = Len(frames[w])
                 /\ frames[w][i].ret = -SIGINT
                 /\ INTERRUPT
                 /\ pc[w] \in {"retry", "append", "appended", "release"}
          /\ pc[w] \in {"appended", "release"} =>
               CopiesIn(Row(test_candidate[w].name,
                            IF Top(frames[w]).signalled
                            THEN "Killed" ELSE StatusOf(Top(frames[w]).ret)), results) = 1)
  /\ [][\A w \in Workers :
          (pc[w] = "launched" /\ pc'[w] # "launched") =>
            IF INTERRUPT
            THEN pc'[w] = "retry" /\ Top(frames'[w]).signalled
            ELSE pc'[w] = "wait" /\ ~Top(frames'[w]).signalled]_vars
  /\ [][\A w \in Workers :
          (pc[w] = "wait" /\ pc'[w] # "wait") => ~Top(frames'[w]).signalled]_vars

\* C18 witness: an attempt with a retry left was signalled and its case has a
\* Killed row, while another case has the row of its own exit code.
C18_Witness ==
  \E w \in Workers :
    /\ pc[w] = "release"
    /\ Top(frames[w]).signalled
    /\ Top(frames[w]).retry >= 1
    /\ CopiesIn(Row(test_candidate[w].name, "Killed"), results) = 1
    /\ \E n \in Discovered : CopiesIn(Row(n, "Failed"), results) = 1

\* C19: a retry is started only after an attempt whose outcome is Failed
\* (exit code neither 0 nor the interrupt code) and that had retries left:
\* every attempt of a case that was followed by another attempt has such a
\* code; an attempt whose code maps to Passed or Killed is the last one.
C19_RetryOnlyAfterFailed ==
  \A w \in Workers :
    \A i \in 1..(Len(frames[w]) - 1) :
      /\ StatusOf(frames[w][i].ret) = "Failed"
      /\ frames[w][i].retry > 0

\* C20: the lock is held only for the claim, bookkeeping and result-append
\* blocks: a worker that holds it is at the end of the scan, of the put or of
\* the append, never at a child that is launched or waited for; at most one
\* worker is in such a block; the row append and the increment of the
\* finished counter are one critical section, so the counter always equals
\* the number of rows.
C20_LockOnlyForBookkeeping ==
  /\ \A w \in Workers :
       /\ LOCK = w <=> pc[w] \in {"scanned", "put", "appended"}
       /\ pc[w] \in {"launched", "wait", "retry"} => LOCK # w
  /\ LOCK \in {0} \cup Workers
  /\ finished = BagCardinality(results)

\* C20 witness: while the child of one worker is being waited for, another
\* worker has appended its row and still holds the lock.
C20_Witness ==
  \E w, v \in Workers :
    /\ w # v
    /\ pc[w] = "wait"
    /\ pc[v] = "appended"
    /\ LOCK = v
    /\ finished >= 1

\* C21: when discovery yields zero cases the run is rejected before
\* scheduling begins: execute_tests does not fail (the run never ends in the
\* crash of the executor's construction) and no worker loop is submitted.
C21_ZeroCasesRejected ==
  (mainpc # "init" /\ total = 0) =>
    (mainpc # "crashed" /\ \A w \in Workers : pc[w] = "none")

\* The number of cases that have been removed from the queue.
ClaimedCount == Len(discovered) - Len(tests)

\* C22: cases are dispatched in discovery (FIFO) order: the queue is always
\* the discovered cases without the first ClaimedCount of them, which are the
\* ones that were taken; whenever a worker scans, its running_groups is
\* empty, and a scan of a non-empty queue returns and removes the front,
\* which is the next discovered case, whatever its group.
C22_FifoDispatch ==
  /\ [](mainpc # "init" =>
          /\ [i \in 1..Len(tests) |-> tests[i].name]
               = SubSeq(discovered, ClaimedCount + 1, Len(discovered))
          /\ \A i \in 1..Len(discovered) :
               takes[discovered[i]] = IF i <= ClaimedCount THEN 1 ELSE 0)
  /\ [][\A w \in Workers :
          (pc[w] = "claim" /\ pc'[w] = "scanned") =>
            /\ running_groups[w] = <<>>
            /\ tests # <<>> =>
                 /\ test_candidate'[w] = Head(tests)
                 /\ tests' = Tail(tests)
                 /\ test_candidate'[w].name = discovered[ClaimedCount + 1]]_vars

\* C22 witness: of three discovered cases the first two, both of one group,
\* are held by two different workers (the second was taken although its group
\* was running) and the third is still queued.
C22_Witness ==
  /\ Len(discovered) = 3
  /\ Len(tests) = 1
  /\ tests[1].name = discovered[3]
  /\ GroupOf(discovered[1]) = GroupOf(discovered[2])
  /\ \E w, v \in Workers :
       /\ w # v
       /\ Attempting(w) /\ test_candidate[w].name = discovered[1]
       /\ Attempting(v) /\ test_candidate[v].name = discovered[2]

\* Worker w has a case in flight that has been started (its first attempt has
\* registered) and whose row is not yet appended.
Started(w) ==
  \/ pc[w] \in {"put", "launched", "wait", "retry", "append"}
  \/ pc[w] = "start" /\ Len(frames[w]) >= 2

\* C23: the registry _running_tests is balanced with execution: whenever the
\* lock is free its number of entries is the number of cases in flight
\* (started, row not yet appended), also for cases that are retried, and it
\* is empty once all worker loops have stopped.
C23_RegistryBalanced ==
  /\ LOCK = 0 => running_tests = Cardinality({w \in Workers : Started(w)})
  /\ WorkersDone => running_tests = 0

====
